---- MODULE Spec2Model ----
(***************************************************************************)
(* Provider configuration resolution of backend/services/ai_providers.     *)
(*                                                                         *)
(* State: the process environment (os.environ), the Flask application      *)
(* configuration that mirrors the database settings (current_app.config),  *)
(* whether an application context is active, and the record of the most    *)
(* recent call into the module.  One action per externally caused change   *)
(* of the configuration and one per function of the module.                *)
(***************************************************************************)
EXTENDS Naturals, FiniteSets, Sequences, TLC

VARIABLES
    env,         \* os.environ: variable name -> string, or None when unset
    store,       \* current_app.config: key -> string, None, or Absent
    accessible,  \* TRUE while a Flask application context is active
    last         \* the call made last under the present configuration, if any

vars == <<env, store, accessible, last>>

---------------------------------------------------------------------------
(* Values.  Every value is a string; two reserved tokens stand for Python's *)
(* None and for "key not in the mapping".                                   *)

None == "<None>"
Absent == "<absent>"

Capabilities == {"text", "image"}

\* str.upper() on the provider_type argument (line 161)
Upper(provider_type) == IF provider_type = "text" THEN "TEXT" ELSE "IMAGE"

\* the f-strings of lines 161-178: f"{provider_type.upper()}{suffix}"
Suffixes ==
    {"_PROVIDER_FORMAT", "_OPENAI_API_KEY", "_OPENAI_API_BASE",
     "_GEMINI_API_KEY", "_GEMINI_API_BASE"}
VarName ==
    [provider_type \in Capabilities |->
        [suffix \in Suffixes |-> Upper(provider_type) \o suffix]]

\* str.lower() on the strings a format variable takes in this model; every
\* other string of the model is already lower case where .lower() is applied
Lower(s) == IF s = "OPENAI" THEN "openai" ELSE s

\* Python truthiness of an Optional[str]
Truthy(v) == v # None /\ v # ""

UnifiedKeys ==
    {"AI_PROVIDER_FORMAT", "GOOGLE_API_KEY", "GOOGLE_API_BASE",
     "OPENAI_API_KEY", "OPENAI_API_BASE"}

SeparatedKeys ==
    {"TEXT_PROVIDER_FORMAT", "IMAGE_PROVIDER_FORMAT",
     "TEXT_GEMINI_API_KEY", "TEXT_GEMINI_API_BASE",
     "IMAGE_GEMINI_API_KEY", "IMAGE_GEMINI_API_BASE",
     "TEXT_OPENAI_API_KEY", "TEXT_OPENAI_API_BASE",
     "IMAGE_OPENAI_API_KEY", "IMAGE_OPENAI_API_BASE"}

EnvKeys == UnifiedKeys \cup SeparatedKeys

FormatKeys == {"AI_PROVIDER_FORMAT", "TEXT_PROVIDER_FORMAT", "IMAGE_PROVIDER_FORMAT"}

\* strings a format variable is given: empty, the two formats, one of them
\* in another case, an unknown one
FormatStrings == {"", "gemini", "openai", "OPENAI", "bogus"}

\* the non-empty string a credential variable is given; one per source and
\* variable, so that an outcome shows where its values came from
EnvString(key) == "env:" \o key
StoreString(key) == "db:" \o key

EnvStringsOf ==
    [key \in EnvKeys |->
        IF key \in FormatKeys THEN FormatStrings ELSE {"", EnvString(key)}]
StoreStringsOf ==
    [key \in UnifiedKeys |->
        IF key \in FormatKeys THEN FormatStrings ELSE {"", StoreString(key)}]
EnvStrings(key) == EnvStringsOf[key]
StoreStrings(key) == StoreStringsOf[key]

DEFAULT_OPENAI_API_BASE == "https://aihubmix.com/v1"
DEFAULT_TEXT_MODEL == "gemini-3-flash-preview"
DEFAULT_IMAGE_MODEL == "gemini-3-pro-image-preview"

\* the model argument of a factory call: omitted (the default) or given
Models(cap) ==
    {IF cap = "text" THEN DEFAULT_TEXT_MODEL ELSE DEFAULT_IMAGE_MODEL, "custom-model"}

\* bound of the model: how many variables and settings are configured at once
MaxConfigured == 2

EmptyEnv == [k \in EnvKeys |-> None]
EmptyStore == [k \in UnifiedKeys |-> Absent]

Configured ==
    Cardinality({k \in EnvKeys : env[k] # None})
    + Cardinality({k \in UnifiedKeys : store[k] # Absent})

---------------------------------------------------------------------------
(* Library calls *)

\* os.getenv(key) and os.getenv(key, default)
os_getenv(en, key) == en[key]
os_getenv_default(en, key, default) == IF en[key] = None THEN default ELSE en[key]

\* current_app.config.get(key)
config_get(st, key) == IF st[key] = Absent THEN None ELSE st[key]

---------------------------------------------------------------------------
(* Outcomes.  A call returns a value or raises ValueError; the two raise   *)
(* sites are told apart by what they report.                               *)

Outcome(status, family, format, api_key, api_base, model, advisory) ==
    [status |-> status, family |-> family, format |-> format,
     api_key |-> api_key, api_base |-> api_base, model |-> model,
     advisory |-> advisory]

Resolved(format, api_key, api_base) ==
    Outcome("ok", None, format, api_key, api_base, None, FALSE)

Raised(error) == Outcome(error, None, None, None, None, None, FALSE)

NoOutcome == Outcome("none", None, None, None, None, None, FALSE)

---------------------------------------------------------------------------
(* The functions of the module, each over the configuration it reads:      *)
(* st = current_app.config, acc = "inside an application context",         *)
(* en = os.environ.                                                        *)

\* lines 64-76.  Outside an application context the settings lookup is
\* skipped (RuntimeError caught, or a falsy proxy); a falsy setting is
\* skipped as well.
get_provider_format(st, acc, en) ==
    IF acc /\ Truthy(config_get(st, "AI_PROVIDER_FORMAT"))
    THEN Lower(config_get(st, "AI_PROVIDER_FORMAT"))
    ELSE Lower(os_getenv_default(en, "AI_PROVIDER_FORMAT", "gemini"))

\* get_config with a slip: the settings are read without asking whether an
\* application context is active
get_config_any_context(st, acc, en, key, default) ==
    IF st[key] # Absent /\ config_get(st, key) # None
    THEN config_get(st, key)
    ELSE IF os_getenv(en, key) # None THEN os_getenv(en, key)
    ELSE IF default # None THEN default
    ELSE None

\* lines 97-123, the helper nested in _get_unified_provider_config
get_config(st, acc, en, key, default) ==
    IF acc /\ st[key] # Absent /\ config_get(st, key) # None
    THEN config_get(st, key)
    ELSE IF os_getenv(en, key) # None THEN os_getenv(en, key)
    ELSE IF default # None THEN default
    ELSE None

\* Python's  a or b
Or(a, b) == IF Truthy(a) THEN a ELSE b

\* _get_unified_provider_config with a slip: the key is tested with
\* "is None" instead of "not api_key"
unified_tests_none_only(st, acc, en) ==
    LET provider_format == get_provider_format(st, acc, en) IN
    IF provider_format = "openai"
    THEN LET api_key == Or(get_config(st, acc, en, "OPENAI_API_KEY", None),
                           get_config(st, acc, en, "GOOGLE_API_KEY", None))
             api_base == get_config(st, acc, en, "OPENAI_API_BASE",
                                    DEFAULT_OPENAI_API_BASE)
         IN  IF api_key = None
             THEN Raised("MissingCredential")
             ELSE Resolved(provider_format, api_key, api_base)
    ELSE LET api_key == get_config(st, acc, en, "GOOGLE_API_KEY", None)
             api_base == get_config(st, acc, en, "GOOGLE_API_BASE", None)
         IN  IF api_key = None
             THEN Raised("MissingCredential")
             ELSE Resolved("gemini", api_key, api_base)

\* _get_unified_provider_config with a slip: the openai branch does not fall
\* back to GOOGLE_API_KEY
unified_no_cross_fallback(st, acc, en) ==
    LET provider_format == get_provider_format(st, acc, en) IN
    IF provider_format = "openai"
    THEN LET api_key == get_config(st, acc, en, "OPENAI_API_KEY", None)
             api_base == get_config(st, acc, en, "OPENAI_API_BASE",
                                    DEFAULT_OPENAI_API_BASE)
         IN  IF ~Truthy(api_key)
             THEN Raised("MissingCredential")
             ELSE Resolved(provider_format, api_key, api_base)
    ELSE LET api_key == get_config(st, acc, en, "GOOGLE_API_KEY", None)
             api_base == get_config(st, acc, en, "GOOGLE_API_BASE", None)
         IN  IF ~Truthy(api_key)
             THEN Raised("MissingCredential")
             ELSE Resolved("gemini", api_key, api_base)

\* lines 94, 125-144
_get_unified_provider_config(st, acc, en) ==
    LET provider_format == get_provider_format(st, acc, en) IN
    IF provider_format = "openai"
    THEN LET api_key == Or(get_config(st, acc, en, "OPENAI_API_KEY", None),
                           get_config(st, acc, en, "GOOGLE_API_KEY", None))
             api_base == get_config(st, acc, en, "OPENAI_API_BASE",
                                    DEFAULT_OPENAI_API_BASE)
         IN  IF ~Truthy(api_key)
             THEN Raised("MissingCredential")
             ELSE Resolved(provider_format, api_key, api_base)
    ELSE LET api_key == get_config(st, acc, en, "GOOGLE_API_KEY", None)
             api_base == get_config(st, acc, en, "GOOGLE_API_BASE", None)
         IN  IF ~Truthy(api_key)
             THEN Raised("MissingCredential")
             ELSE Resolved("gemini", api_key, api_base)

\* _get_separated_provider_config with a slip: an unknown format falls back
\* to the unified configuration instead of raising
separated_unknown_falls_back(provider_type, st, acc, en) ==
    LET format_var == VarName[provider_type]["_PROVIDER_FORMAT"]
        provider_format == Lower(os_getenv_default(en, format_var, ""))
    IN
    IF ~Truthy(provider_format)
    THEN _get_unified_provider_config(st, acc, en)
    ELSE IF provider_format = "openai"
    THEN LET api_key == os_getenv(en, VarName[provider_type]["_OPENAI_API_KEY"])
             api_base == os_getenv(en, VarName[provider_type]["_OPENAI_API_BASE"])
         IN  IF ~Truthy(api_key)
             THEN Raised("MissingCredential")
             ELSE Resolved(provider_format, api_key, api_base)
    ELSE IF provider_format = "gemini"
    THEN LET api_key == os_getenv(en, VarName[provider_type]["_GEMINI_API_KEY"])
             api_base == os_getenv(en, VarName[provider_type]["_GEMINI_API_BASE"])
         IN  IF ~Truthy(api_key)
             THEN IF ~Truthy(os_getenv(en, "GOOGLE_API_KEY"))
                  THEN Raised("MissingCredential")
                  ELSE Resolved(provider_format,
                                os_getenv(en, "GOOGLE_API_KEY"),
                                os_getenv(en, "GOOGLE_API_BASE"))
             ELSE Resolved(provider_format, api_key, api_base)
    ELSE _get_unified_provider_config(st, acc, en)

\* _get_separated_provider_config with a slip: the gemini fallback looks
\* GOOGLE_API_KEY and GOOGLE_API_BASE up through the settings store
separated_fallback_reads_store(provider_type, st, acc, en) ==
    LET format_var == VarName[provider_type]["_PROVIDER_FORMAT"]
        provider_format == Lower(os_getenv_default(en, format_var, ""))
    IN
    IF ~Truthy(provider_format)
    THEN _get_unified_provider_config(st, acc, en)
    ELSE IF provider_format = "openai"
    THEN LET api_key == os_getenv(en, VarName[provider_type]["_OPENAI_API_KEY"])
             api_base == os_getenv(en, VarName[provider_type]["_OPENAI_API_BASE"])
         IN  IF ~Truthy(api_key)
             THEN Raised("MissingCredential")
             ELSE Resolved(provider_format, api_key, api_base)
    ELSE IF provider_format = "gemini"
    THEN LET api_key == os_getenv(en, VarName[provider_type]["_GEMINI_API_KEY"])
             api_base == os_getenv(en, VarName[provider_type]["_GEMINI_API_BASE"])
         IN  IF ~Truthy(api_key)
             THEN IF ~Truthy(get_config(st, acc, en, "GOOGLE_API_KEY", None))
                  THEN Raised("MissingCredential")
                  ELSE Resolved(provider_format,
                                get_config(st, acc, en, "GOOGLE_API_KEY", None),
                                get_config(st, acc, en, "GOOGLE_API_BASE", None))
             ELSE Resolved(provider_format, api_key, api_base)
    ELSE Raised("InvalidFormat")

\* _get_separated_provider_config with a slip: the gemini branch has no
\* fallback to GOOGLE_API_KEY
separated_no_google_fallback(provider_type, st, acc, en) ==
    LET format_var == VarName[provider_type]["_PROVIDER_FORMAT"]
        provider_format == Lower(os_getenv_default(en, format_var, ""))
    IN
    IF ~Truthy(provider_format)
    THEN _get_unified_provider_config(st, acc, en)
    ELSE IF provider_format = "openai"
    THEN LET api_key == os_getenv(en, VarName[provider_type]["_OPENAI_API_KEY"])
             api_base == os_getenv(en, VarName[provider_type]["_OPENAI_API_BASE"])
         IN  IF ~Truthy(api_key)
             THEN Raised("MissingCredential")
             ELSE Resolved(provider_format, api_key, api_base)
    ELSE IF provider_format = "gemini"
    THEN LET api_key == os_getenv(en, VarName[provider_type]["_GEMINI_API_KEY"])
             api_base == os_getenv(en, VarName[provider_type]["_GEMINI_API_BASE"])
         IN  IF ~Truthy(api_key)
             THEN Raised("MissingCredential")
             ELSE Resolved(provider_format, api_key, api_base)
    ELSE Raised("InvalidFormat")

\* lines 160-193
_get_separated_provider_config(provider_type, st, acc, en) ==
    LET format_var == VarName[provider_type]["_PROVIDER_FORMAT"]
        provider_format == Lower(os_getenv_default(en, format_var, ""))
    IN
    IF ~Truthy(provider_format)
    THEN _get_unified_provider_config(st, acc, en)
    ELSE IF provider_format = "openai"
    THEN LET api_key == os_getenv(en, VarName[provider_type]["_OPENAI_API_KEY"])
             api_base == os_getenv(en, VarName[provider_type]["_OPENAI_API_BASE"])
         IN  IF ~Truthy(api_key)
             THEN Raised("MissingCredential")
             ELSE Resolved(provider_format, api_key, api_base)
    ELSE IF provider_format = "gemini"
    THEN LET api_key == os_getenv(en, VarName[provider_type]["_GEMINI_API_KEY"])
             api_base == os_getenv(en, VarName[provider_type]["_GEMINI_API_BASE"])
         IN  IF ~Truthy(api_key)
             THEN IF ~Truthy(os_getenv(en, "GOOGLE_API_KEY"))
                  THEN Raised("MissingCredential")
                  ELSE Resolved(provider_format,
                                os_getenv(en, "GOOGLE_API_KEY"),
                                os_getenv(en, "GOOGLE_API_BASE"))
             ELSE Resolved(provider_format, api_key, api_base)
    ELSE Raised("InvalidFormat")

\* lines 206-211 and 235-240: which resolution a factory uses
factory_config(provider_type, st, acc, en) ==
    IF Truthy(os_getenv(en, VarName[provider_type]["_PROVIDER_FORMAT"]))
    THEN _get_separated_provider_config(provider_type, st, acc, en)
    ELSE _get_unified_provider_config(st, acc, en)

\* get_text_provider with a slip: the adapter family follows the unified
\* AI_PROVIDER_FORMAT instead of the format that was resolved
get_text_provider_by_unified_format(model, st, acc, en) ==
    LET cfg == factory_config("text", st, acc, en) IN
    IF cfg.status # "ok" THEN cfg
    ELSE IF get_provider_format(st, acc, en) = "openai"
    THEN Outcome("ok", "OpenAITextProvider", cfg.format, cfg.api_key,
                 cfg.api_base, model, FALSE)
    ELSE Outcome("ok", "GenAITextProvider", cfg.format, cfg.api_key,
                 cfg.api_base, model, FALSE)

\* lines 206-218
get_text_provider(model, st, acc, en) ==
    LET cfg == factory_config("text", st, acc, en) IN
    IF cfg.status # "ok" THEN cfg
    ELSE IF cfg.format = "openai"
    THEN Outcome("ok", "OpenAITextProvider", cfg.format, cfg.api_key,
                 cfg.api_base, model, FALSE)
    ELSE Outcome("ok", "GenAITextProvider", cfg.format, cfg.api_key,
                 cfg.api_base, model, FALSE)

\* lines 235-248; advisory = the logger.warning of line 244
get_image_provider(model, st, acc, en) ==
    LET cfg == factory_config("image", st, acc, en) IN
    IF cfg.status # "ok" THEN cfg
    ELSE IF cfg.format = "openai"
    THEN Outcome("ok", "OpenAIImageProvider", cfg.format, cfg.api_key,
                 cfg.api_base, model, TRUE)
    ELSE Outcome("ok", "GenAIImageProvider", cfg.format, cfg.api_key,
                 cfg.api_base, model, FALSE)

get_provider(provider_type, model, st, acc, en) ==
    IF provider_type = "text"
    THEN get_text_provider(model, st, acc, en)
    ELSE get_image_provider(model, st, acc, en)

---------------------------------------------------------------------------
(* A call made by the application: the function reads the configuration    *)
(* as it is at that moment; the module keeps nothing between calls.        *)

CallFormat == Resolved(get_provider_format(store, accessible, env), None, None)
CallConfig(cap) == factory_config(cap, store, accessible, env)
\* a factory call with a slip: the adapter built by the previous call of the
\* factory is kept and handed out again
CallFactory_memo(cap, model) ==
    IF last.op = (IF cap = "text" THEN "get_text_provider" ELSE "get_image_provider")
       /\ last.out.status = "ok"
    THEN last.out
    ELSE get_provider(cap, model, store, accessible, env)

CallFactory(cap, model) == get_provider(cap, model, store, accessible, env)

\* the resolution a factory call goes through (lines 207 and 236)
Via(cap) ==
    IF Truthy(os_getenv(env, VarName[cap]["_PROVIDER_FORMAT"]))
    THEN "_get_separated_provider_config"
    ELSE "_get_unified_provider_config"

\* what is observed of a call: the function, its argument, the resolution it
\* went through with what that returned or raised, and its own outcome
Called(op, arg, via, cfg, out) ==
    [op |-> op, arg |-> arg, via |-> via, cfg |-> cfg, out |-> out]

\* no call made under the present configuration yet
NoCall == Called("none", None, None, NoOutcome, NoOutcome)

---------------------------------------------------------------------------
Init ==
    /\ env = EmptyEnv
    /\ store = EmptyStore
    /\ accessible = FALSE
    /\ last = NoCall

\* a variable of the process environment is set (os.environ, .env)
SetEnv ==
    /\ Configured < MaxConfigured
    /\ \E k \in EnvKeys : \E v \in EnvStrings(k) :
        /\ env[k] = None
        /\ env' = [env EXCEPT ![k] = v]
        /\ last' = NoCall
        /\ UNCHANGED <<store, accessible>>

UnsetEnv ==
    \E k \in EnvKeys :
        /\ env[k] # None
        /\ env' = [env EXCEPT ![k] = None]
        /\ last' = NoCall
        /\ UNCHANGED <<store, accessible>>

\* the owner of the settings writes a key of app.config
SetStore ==
    /\ Configured < MaxConfigured
    /\ \E k \in UnifiedKeys : \E v \in StoreStrings(k) \cup {None} :
        /\ store[k] = Absent
        /\ store' = [store EXCEPT ![k] = v]
        /\ last' = NoCall
        /\ UNCHANGED <<env, accessible>>

DelStore ==
    \E k \in UnifiedKeys :
        /\ store[k] # Absent
        /\ store' = [store EXCEPT ![k] = Absent]
        /\ last' = NoCall
        /\ UNCHANGED <<env, accessible>>

\* an application context is pushed or popped
EnterContext ==
    /\ ~accessible
    /\ accessible' = TRUE
    /\ last' = NoCall
    /\ UNCHANGED <<env, store>>

LeaveContext ==
    /\ accessible
    /\ accessible' = FALSE
    /\ last' = NoCall
    /\ UNCHANGED <<env, store>>

GetProviderFormat ==
    /\ last' = Called("get_provider_format", None, None, NoOutcome, CallFormat)
    /\ UNCHANGED <<env, store, accessible>>

GetTextProvider ==
    \E model \in Models("text") :
        /\ last' = Called("get_text_provider", model, Via("text"),
                          CallConfig("text"), CallFactory("text", model))
        /\ UNCHANGED <<env, store, accessible>>

GetImageProvider ==
    \E model \in Models("image") :
        /\ last' = Called("get_image_provider", model, Via("image"),
                          CallConfig("image"), CallFactory("image", model))
        /\ UNCHANGED <<env, store, accessible>>

Next ==
    \/ SetEnv
    \/ UnsetEnv
    \/ SetStore
    \/ DelStore
    \/ EnterContext
    \/ LeaveContext
    \/ GetProviderFormat
    \/ GetTextProvider
    \/ GetImageProvider

Spec == Init /\ [][Next]_vars

---------------------------------------------------------------------------
(* Vocabulary of the properties *)

Factories == {"get_text_provider", "get_image_provider"}
FactoryName(cap) == IF cap = "text" THEN "get_text_provider" ELSE "get_image_provider"
CapOf(op) == IF op = "get_text_provider" THEN "text" ELSE "image"
FormatVar(cap) == VarName[cap]["_PROVIDER_FORMAT"]

OpenAIFamily(cap) == IF cap = "text" THEN "OpenAITextProvider" ELSE "OpenAIImageProvider"
GenAIFamily(cap) == IF cap = "text" THEN "GenAITextProvider" ELSE "GenAIImageProvider"

\* a string value (not None, not a missing key)
IsString(v) == v # None /\ v # Absent

\* the lookup of section 4.1 of the specification without a default: the
\* store when it is accessible and holds a value for the key, else the
\* environment
Lookup(key) ==
    IF accessible /\ IsString(store[key]) THEN store[key] ELSE env[key]

\* the key has a value in the accessible store or in the environment
Present(key) == (accessible /\ IsString(store[key])) \/ env[key] # None

\* the separated path is taken for the capability
Separated(cap) == Truthy(env[FormatVar(cap)])

\* the api_key the precedence chain of sections 4.3 and 4.4 ends with
ChainKey(cap) ==
    IF Separated(cap)
    THEN IF Lower(env[FormatVar(cap)]) = "openai"
         THEN env[VarName[cap]["_OPENAI_API_KEY"]]
         ELSE Or(env[VarName[cap]["_GEMINI_API_KEY"]], env["GOOGLE_API_KEY"])
    ELSE IF get_provider_format(store, accessible, env) = "openai"
         THEN Or(Lookup("OPENAI_API_KEY"), Lookup("GOOGLE_API_KEY"))
         ELSE Lookup("GOOGLE_API_KEY")

ValidSeparatedFormat(cap) == Lower(env[FormatVar(cap)]) \in {"gemini", "openai"}

---------------------------------------------------------------------------
(* C1.  For each of the five unified keys: when the settings store is      *)
(* accessible and holds a string for the key, the empty string included,   *)
(* unified resolution uses the store value and the environment variable of *)
(* the same name has no influence: a get_provider_format call returns what *)
(* it would return with that variable unset (the lower-cased store value   *)
(* when that is non-empty), and the key and base lookups return the store  *)
(* value.                                                                  *)
C1_StoreValueWins ==
    accessible =>
        /\ (/\ last.op = "get_provider_format"
            /\ IsString(store["AI_PROVIDER_FORMAT"]))
           => /\ last.out.format =
                    get_provider_format(store, accessible,
                        [env EXCEPT !["AI_PROVIDER_FORMAT"] = None])
              /\ Truthy(store["AI_PROVIDER_FORMAT"])
                    => last.out.format = Lower(store["AI_PROVIDER_FORMAT"])
        /\ \A key \in UnifiedKeys \ {"AI_PROVIDER_FORMAT"} :
              IsString(store[key])
              => \A default \in {None, DEFAULT_OPENAI_API_BASE} :
                    get_config(store, accessible, env, key, default) = store[key]

(* C2.  A factory call ends in an adapter, in MissingCredential or in      *)
(* InvalidFormat.  An adapter is constructed with a non-empty api_key; a   *)
(* call whose precedence chain ends with no api_key or an empty one (its   *)
(* format being valid) fails with MissingCredential; a failed call         *)
(* constructs no adapter of either family.                                 *)
C2_AdapterKeyNonEmpty ==
    last.op \in Factories =>
        LET cap == CapOf(last.op) IN
        /\ last.out.status \in {"ok", "MissingCredential", "InvalidFormat"}
        /\ last.out.status = "ok"
              => /\ Truthy(last.out.api_key)
                 /\ last.out.family \in {OpenAIFamily(cap), GenAIFamily(cap)}
        /\ last.out.status # "ok" => last.out.family = None
        /\ (~Truthy(ChainKey(cap)) /\ (Separated(cap) => ValidSeparatedFormat(cap)))
              => last.out.status = "MissingCredential"
        /\ last.out.status = "MissingCredential" => ~Truthy(ChainKey(cap))

\* a factory call failed with MissingCredential on a key set to the empty string
C2_Witness ==
    /\ last.op = "get_text_provider"
    /\ last.out.status = "MissingCredential"
    /\ env["GOOGLE_API_KEY"] = ""

(* C3.  get_provider_format() returns "gemini" or "openai" and nothing     *)
(* else, and "gemini" when AI_PROVIDER_FORMAT is configured neither in the *)
(* store nor in the environment.                                           *)
C3_FormatIsGeminiOrOpenai ==
    last.op = "get_provider_format" =>
        /\ last.out.format \in {"gemini", "openai"}
        /\ ~Present("AI_PROVIDER_FORMAT") => last.out.format = "gemini"

\* the (format, api_key, api_base) of an outcome
Triple(out) == <<out.format, out.api_key, out.api_base>>

C5_AdapterMatchesFormat ==
    last.op \in Factories =>
        LET cap == CapOf(last.op) IN
        /\ last.out.status = last.cfg.status
        /\ last.out.status = "ok"
              => /\ last.out.family = (IF last.cfg.format = "openai"
                                       THEN OpenAIFamily(cap)
                                       ELSE GenAIFamily(cap))
                 /\ last.out.format \in {"gemini", "openai"}
                 /\ Triple(last.out) = Triple(last.cfg)
                 /\ last.out.model = last.arg
        /\ last.via = "_get_unified_provider_config"
              => /\ last.out.status # "InvalidFormat"
                 /\ (/\ last.out.status = "ok"
                     /\ get_provider_format(store, accessible, env) # "openai")
                    => last.out.format = "gemini"
        /\ last.out.advisory
              <=> (/\ last.op = "get_image_provider"
                   /\ last.out.status = "ok"
                   /\ last.cfg.format = "openai")

\* get_image_provider on the separated path returned the OpenAI adapter and
\* emitted the advisory
C5_Witness ==
    /\ last.op = "get_image_provider"
    /\ Lower(env["IMAGE_PROVIDER_FORMAT"]) = "openai"
    /\ last.out.family = "OpenAIImageProvider"
    /\ last.out.api_key = EnvString("IMAGE_OPENAI_API_KEY")
    /\ last.out.advisory

(* C6.  For each capability C: when C_PROVIDER_FORMAT is set to a non-empty *)
(* value whose lower-cased form is neither "gemini" nor "openai", separated *)
(* resolution raises InvalidFormat whatever keys are configured, and so     *)
(* does the factory for C, which goes through separated resolution and      *)
(* constructs no adapter.                                                   *)
C6_InvalidSeparatedFormat ==
    \A cap \in Capabilities :
        (Separated(cap) /\ ~ValidSeparatedFormat(cap))
        => /\ _get_separated_provider_config(cap, store, accessible, env)
                = Raised("InvalidFormat")
           /\ last.op = FactoryName(cap)
                => /\ last.via = "_get_separated_provider_config"
                   /\ last.out = Raised("InvalidFormat")

\* get_image_provider was called with IMAGE_PROVIDER_FORMAT=bogus while a
\* usable GOOGLE_API_KEY is configured
C6_Witness ==
    /\ last.op = "get_image_provider"
    /\ env["IMAGE_PROVIDER_FORMAT"] = "bogus"
    /\ Truthy(Lookup("GOOGLE_API_KEY"))
    /\ last.out.status = "InvalidFormat"

\* settings stores to compare with: none, every key a non-empty string,
\* every key the empty string
FullStore == [k \in UnifiedKeys |->
                IF k = "AI_PROVIDER_FORMAT" THEN "openai" ELSE StoreString(k)]
BlankStore == [k \in UnifiedKeys |-> ""]
OtherStores == {EmptyStore, FullStore, BlankStore}

(* C7.  For each capability C, whenever C_PROVIDER_FORMAT is non-empty the  *)
(* outcome of the factory for C is the same for every content and          *)
(* accessibility of the settings store.                                    *)
C7_StoreNonInterference ==
    \A cap \in Capabilities :
        Separated(cap)
        => /\ \A st \in OtherStores : \A acc \in BOOLEAN :
                 factory_config(cap, store, accessible, env)
                    = factory_config(cap, st, acc, env)
           /\ last.op = FactoryName(cap)
                => last.out = get_provider(cap, last.arg, EmptyStore, FALSE, env)

\* get_text_provider was called with TEXT_PROVIDER_FORMAT=gemini while only
\* the accessible store holds a GOOGLE_API_KEY
C7_Witness ==
    /\ last.op = "get_text_provider"
    /\ Lower(env["TEXT_PROVIDER_FORMAT"]) = "gemini"
    /\ accessible
    /\ store["GOOGLE_API_KEY"] = StoreString("GOOGLE_API_KEY")
    /\ last.out.status = "MissingCredential"

(* C8.  While the settings store is not accessible, every lookup yields    *)
(* what it yields with an accessible empty store: the environment value if *)
(* the variable is set, else the default, else None; get_provider_format   *)
(* and both factories have the outcome they have with an accessible empty  *)
(* store, and a call ends in a value, MissingCredential or InvalidFormat.  *)
C8_InaccessibleStoreIsEmptyStore ==
    ~accessible =>
        /\ \A key \in UnifiedKeys : \A default \in {None, DEFAULT_OPENAI_API_BASE} :
              /\ get_config(store, accessible, env, key, default)
                    = get_config(EmptyStore, TRUE, env, key, default)
              /\ get_config(store, accessible, env, key, default)
                    = (IF env[key] # None THEN env[key] ELSE default)
        /\ get_provider_format(store, accessible, env)
              = get_provider_format(EmptyStore, TRUE, env)
        /\ last.op \in Factories
              => /\ last.out = get_provider(CapOf(last.op), last.arg,
                                            EmptyStore, TRUE, env)
                 /\ last.out.status \in {"ok", "MissingCredential", "InvalidFormat"}
        /\ last.op = "get_provider_format"
              => /\ last.out.status = "ok"
                 /\ last.out.format = get_provider_format(EmptyStore, TRUE, env)

\* get_text_provider was called outside an application context while the
\* store holds a GOOGLE_API_KEY and the environment holds another
C8_Witness ==
    /\ ~accessible
    /\ store["GOOGLE_API_KEY"] = StoreString("GOOGLE_API_KEY")
    /\ last.op = "get_text_provider"
    /\ last.out.status = "ok"
    /\ last.out.api_key = EnvString("GOOGLE_API_KEY")

====
